---- MODULE Spec2Model ----
(***************************************************************************)
(* A model of src/bot.py: the BreakTheICX moderation bot.                  *)
(*                                                                         *)
(* The bot is one asyncio event loop (concurrent_updates(True)): every     *)
(* update is handled by its own task, and tasks interleave only at their   *)
(* await points.  The firebase calls (get/set/update/delete/push) are      *)
(* synchronous, so a handler runs from its start to its first platform     *)
(* call without interruption.  An action of this model is therefore one    *)
(* such uninterrupted segment of a handler.                                *)
(***************************************************************************)
EXTENDS Integers, Sequences, FiniteSets, TLC

VARIABLES
    now,        \* time.monotonic(), in seconds
    events,     \* FloodTracker.events: (chat, user) -> deque of timestamps
    admins,     \* store: admins/{user_id}
    groups,     \* store: groups/{chat_id}/{flood_limit, filters, blacklist, log_channel}
    users,      \* store: users/{user_id}/history
    upd,        \* the updates handled so far, each with its handler's position
    calls       \* FloodTracker.increment calls made so far (SpecFlood only)

vars == <<now, events, admins, groups, users, upd, calls>>

store == <<admins, groups, users>>

----------------------------------------------------------------------------
(* Program constants *)

FLOOD_WINDOW_SECONDS == 10
DEFAULT_FLOOD_LIMIT == 5

(* Bounds of the model *)

MaxUpdates == 3      \* updates (messages and commands) handled in one run
MaxTime == 12        \* the clock stops advancing here
MaxCalls == 4        \* increment calls in one run of SpecFlood

Chats == {1, 2}
Users == {1, 2}
Keys == Chats \X Users

----------------------------------------------------------------------------
(* Sequence helpers *)

Range(s) == {s[i] : i \in 1..Len(s)}

RECURSIVE DropWhileLE(_, _)
\* while queue and queue[0] <= cutoff: queue.popleft()
DropWhileLE(q, cutoff) ==
    IF q # <<>> /\ Head(q) <= cutoff THEN DropWhileLE(Tail(q), cutoff) ELSE q

RECURSIVE DropWhileLT(_, _)
DropWhileLT(q, cutoff) ==
    IF q # <<>> /\ Head(q) < cutoff THEN DropWhileLT(Tail(q), cutoff) ELSE q

----------------------------------------------------------------------------
(* FloodTracker *)

\* self.events.setdefault(key, deque())
QueueOf(ev, key) == IF key \in DOMAIN ev THEN ev[key] ELSE <<>>

\* dict assignment / dict.pop on a mapping modelled as a function on its keys
PutKey(ev, key, q) ==
    [k \in (DOMAIN ev) \cup {key} |-> IF k = key THEN q ELSE ev[k]]

PopKey(ev, key) == [k \in (DOMAIN ev) \ {key} |-> ev[k]]

EvictStrict(q, cutoff) == DropWhileLT(q, cutoff)

EvictAllStale(q, cutoff) ==
    IF q # <<>> /\ Head(q) <= cutoff THEN <<q[Len(q)]>> ELSE q

EvictThroughNow(q, cutoff) == DropWhileLE(q, cutoff + FLOOD_WINDOW_SECONDS)

\* the eviction loop of FloodTracker.increment
Evict(q, cutoff) == DropWhileLE(q, cutoff)

IncrementLost(ev, key, t) ==
    LET queue == Evict(<<t>>, t - FLOOD_WINDOW_SECONDS)
    IN  [events |-> PutKey(ev, key, queue), count |-> Len(queue)]

IncrementShared(ev, key, t) ==
    LET queue == Evict(Append(QueueOf(ev, key), t), t - FLOOD_WINDOW_SECONDS)
    IN  [events |-> [k \in (DOMAIN ev) \cup {key} |->
                        IF k[1] = key[1] THEN queue ELSE ev[k]],
         count |-> Len(queue)]

\* FloodTracker.increment(chat_id, user_id, now): the new events and the count
Increment(ev, key, t) ==
    LET queue == Evict(Append(QueueOf(ev, key), t), t - FLOOD_WINDOW_SECONDS)
    IN  IF queue = <<>>
        THEN [events |-> PopKey(ev, key), count |-> 0]
        ELSE [events |-> PutKey(ev, key, queue), count |-> Len(queue)]

----------------------------------------------------------------------------
(* Text: a string is a sequence of characters; str.lower() and the `in`    *)
(* substring test are computed character by character.                     *)

LowerChar(ch) == CASE ch = "A" -> "a" [] ch = "B" -> "b" [] OTHER -> ch

\* str.lower()
Lower(t) == [i \in 1..Len(t) |-> LowerChar(t[i])]

StartsWith(s, t) == Len(s) <= Len(t) /\ SubSeq(t, 1, Len(s)) = s

\* `s in t` for strings
IsSubstring(s, t) ==
    \E i \in 0..(Len(t) - Len(s)) : SubSeq(t, i + 1, i + Len(s)) = s

\* code points, for the order of sorted()
Ord(ch) == CASE ch = "A" -> 65 [] ch = "B" -> 66 [] ch = "a" -> 97 [] OTHER -> 98

RECURSIVE StrLess(_, _)
\* s < t for Python strings
StrLess(s, t) ==
    IF s = <<>> THEN t # <<>>
    ELSE IF t = <<>> THEN FALSE
    ELSE IF Head(s) # Head(t) THEN Ord(Head(s)) < Ord(Head(t))
    ELSE StrLess(Tail(s), Tail(t))

\* the orders in which a mapping with key set S can be enumerated
Orders(S) ==
    {o \in [1..Cardinality(S) -> S] : \A i, j \in DOMAIN o : i # j => o[i] # o[j]}

\* sorted(S) for a set of strings
SortedOrder(S) ==
    CHOOSE o \in Orders(S) : \A i, j \in DOMAIN o : i < j => StrLess(o[i], o[j])

NoMatch == [hit |-> FALSE, trigger |-> <<>>, reply |-> ""]

RECURSIVE FirstMatch(_, _, _)
\* the loop `for trigger, reply_text in filters_map.items()` of check_messages,
\* over the entries in the order `order`
FirstMatch(order, fmap, lowered) ==
    IF order = <<>> THEN NoMatch
    ELSE IF Lower(Head(order)) # <<>> /\ IsSubstring(Lower(Head(order)), lowered)
         THEN [hit |-> TRUE, trigger |-> Head(order), reply |-> fmap[Head(order)]]
         ELSE FirstMatch(Tail(order), fmap, lowered)

----------------------------------------------------------------------------
(* The store.  A value read from it is loosely typed: [k, v] with k the    *)
(* kind ("none" for an absent node, "int", "str" for a non-numeric string) *)
(* and v the number when k = "int".                                        *)

Absent == [k |-> "none", v |-> 0]
IntVal(n) == [k |-> "int", v |-> n]
StrVal == [k |-> "str", v |-> 0]

NoFilters == [tr \in {} |-> ""]

EmptyGroup ==
    [flood_limit |-> Absent, filters |-> NoFilters, blacklist |-> {},
     log_channel |-> Absent,
     welcome_on |-> "none", welcome_text |-> "",
     goodbye_on |-> "none", goodbye_text |-> ""]

\* _get_group_settings: {} when the read fails
GetGroupSettings(c, failed) ==
    IF "settings" \in failed THEN EmptyGroup ELSE groups[c]

FloodLimitUnfloored(settings) ==
    IF settings.flood_limit.k # "int" THEN DEFAULT_FLOOD_LIMIT
    ELSE settings.flood_limit.v

\* check_messages, lines 920-926: int(limit_raw), 5 when that raises or is <= 0
FloodLimitOf(settings) ==
    LET raw == settings.flood_limit
    IN  IF raw.k # "int" THEN DEFAULT_FLOOD_LIMIT
        ELSE IF raw.v <= 0 THEN DEFAULT_FLOOD_LIMIT
        ELSE raw.v

ExceedsLimitEarly(flood_count, flood_limit) == flood_count >= flood_limit

ExceedsLimitLate(flood_count, flood_limit) == flood_count > flood_limit + 1

\* check_messages, line 927: if flood_count > flood_limit
ExceedsLimit(flood_count, flood_limit) == flood_count > flood_limit

\* _get_filters: {} when the read fails
GetFilters(c, failed) ==
    IF "filters" \in failed THEN NoFilters ELSE groups[c].filters

\* check_messages, lines 944-946: the settings' filters, else _get_filters
FiltersMapOf(c, settings, failed) ==
    IF DOMAIN settings.filters # {} THEN settings.filters ELSE GetFilters(c, failed)

IsBannedByChatId(c, u, failed) ==
    "blacklist" \notin failed /\ c \in groups[c].blacklist

IsBannedCached(c, u, failed) ==
    IF <<c, u>> \in DOMAIN events THEN FALSE
    ELSE "blacklist" \notin failed /\ u \in groups[c].blacklist

IsBannedFailClosed(c, u, failed) ==
    "blacklist" \in failed \/ u \in groups[c].blacklist

\* _is_banned: a read of groups/{chat}/blacklist/{user}; False when it fails
IsBanned(c, u, failed) ==
    "blacklist" \notin failed /\ u \in groups[c].blacklist

\* _get_log_channel
GetLogChannel(c, failed) ==
    LET raw == GetGroupSettings(c, failed).log_channel
    IN  IF raw.k = "int" THEN raw ELSE Absent

\* history_to_list: the stored entries in the order of their push ids, the
\* empty ones left out
HistoryToList(raw) == SelectSeq(raw, LAMBDA item : item # "")

\* _get_name_history: [] when the read fails
GetNameHistory(u, failed) ==
    IF "history" \in failed THEN <<>> ELSE HistoryToList(users[u])

AppendNameHistoryAlways(u, bot, name, failed) ==
    IF bot THEN users
    ELSE IF "push" \in failed THEN users
    ELSE [users EXCEPT ![u] = Append(@, name)]

\* _append_name_history: the new users/{user}/history; name is the formatted
\* name of the sender
AppendNameHistory(u, bot, name, failed) ==
    LET history == GetNameHistory(u, failed)
    IN  IF bot THEN users
        ELSE IF history # <<>> /\ history[Len(history)] = name THEN users
        ELSE IF "push" \in failed THEN users
        ELSE [users EXCEPT ![u] = Append(@, name)]

----------------------------------------------------------------------------
(* Handlers.  upd[i] is the i-th update and where its handler stands:      *)
(*   pc      "await_*" while a platform call is in flight, "done" after a  *)
(*           return, "raised" after an exception left the handler          *)
(*   bot     the sender is a bot; svc: "join", "leave" or "none"            *)
(*   banned  a blacklist entry for (chat, user) was in the store when the  *)
(*           handler ran                                                   *)
(*   count   what FloodTracker.increment returned (-1: not called)         *)
(*   limit   the flood limit compared against (-1: not read)               *)
(*   steps   the pipeline stages entered, in order                         *)
(*   acts    the platform calls made, in order                             *)
(*   reply   the text of the filter reply ("" when none); of /addfilter,    *)
(*           the reply given                                               *)
(*   failed  the store reads and writes that failed when the handler ran   *)
(*   members of a join or leave: whether each member is a bot              *)
(*   todo    of a join: the members the loop has still to come to          *)
(*   name    the formatted name of the sender of a message                 *)
(*   arg     the arguments of a command                                    *)
(*   ops     the store reads and writes made, in order                     *)
(*   errs    the platform calls that raised TelegramError                  *)
(*   seen    the name history _append_name_history read (SpecSlow and      *)
(*           SpecRace, where the store calls take time)                    *)

\* a command without arguments that replies to no message
NoArg == [s |-> "", trig |-> <<>>, reply |-> "", v |-> Absent, target |-> 0]

NewUpdate(kind, c, u, text) ==
    [kind |-> kind, chat |-> c, user |-> u, target |-> 0, text |-> text, t |-> now,
     bot |-> FALSE, svc |-> "none",
     pc |-> "done", banned |-> FALSE, count |-> -1, limit |-> -1,
     steps |-> <<>>, acts |-> <<>>, reply |-> "", failed |-> {}, members |-> <<>>,
     todo |-> <<>>, name |-> "", arg |-> NoArg, ops |-> <<>>, errs |-> {},
     seen |-> <<>>]

SkipsServiceOnly(bot, svc) == svc # "none"

\* check_messages, lines 892-900: the updates it returns on at once
Skips(bot, svc) == bot \/ svc # "none"

\* check_messages from its start to its first await (or its return)
MessageRun(c, u, bot, svc, name, text, order, failed) ==
    LET base == [NewUpdate("message", c, u, text) EXCEPT
                    !.bot = bot, !.svc = svc, !.failed = failed, !.name = name,
                    !.banned = u \in groups[c].blacklist]
    IN
    IF Skips(bot, svc)
    THEN [users |-> users, events |-> events, rec |-> base]
    ELSE
    LET hist == AppendNameHistory(u, bot, name, failed)
        last == GetNameHistory(u, failed)
        pushes == IF last # <<>> /\ last[Len(last)] = name THEN <<>> ELSE <<"history.push">>
        checked == [base EXCEPT !.ops = <<"history.get">> \o pushes \o <<"blacklist.get">>]
    IN
    IF IsBanned(c, u, failed)
    THEN [users |-> hist, events |-> events,
          rec |-> [checked EXCEPT !.pc = "await_ban",
                                  !.steps = <<"history", "ban_check">>,
                                  !.acts = <<"ban_member">>]]
    ELSE
    LET inc == Increment(events, <<c, u>>, now)
        settings == GetGroupSettings(c, failed)
        flood_limit == FloodLimitOf(settings)
        counted == [checked EXCEPT !.count = inc.count, !.limit = flood_limit,
                                   !.steps = <<"history", "ban_check", "flood">>,
                                   !.ops = Append(@, "settings.get")]
    IN
    IF ExceedsLimit(inc.count, flood_limit)
    THEN [users |-> hist, events |-> inc.events,
          rec |-> [counted EXCEPT !.pc = "await_restrict",
                                  !.acts = <<"restrict_member">>]]
    ELSE
    LET filters_map == FiltersMapOf(c, settings, failed)
        m == FirstMatch(order, filters_map, Lower(text))
        filtered == [counted EXCEPT
                        !.steps = Append(@, "filter"),
                        !.ops = IF DOMAIN settings.filters # {} THEN @
                                ELSE Append(@, "filters.get")]
    IN
    IF m.hit
    THEN [users |-> hist, events |-> inc.events,
          rec |-> [filtered EXCEPT !.pc = "await_reply",
                                   !.acts = <<"filter_reply">>,
                                   !.reply = m.reply]]
    ELSE [users |-> hist, events |-> inc.events, rec |-> filtered]

SendLogTwice(rec, failed) ==
    IF GetLogChannel(rec.chat, failed).k = "int"
    THEN [rec EXCEPT !.pc = "await_log", !.acts = @ \o <<"log", "log">>]
    ELSE [rec EXCEPT !.pc = "done"]

\* _send_log: a send to the log channel when one is configured
SendLog(rec, failed) ==
    IF GetLogChannel(rec.chat, failed).k = "int"
    THEN [rec EXCEPT !.pc = "await_log", !.acts = Append(@, "log"),
                     !.ops = Append(@, "settings.get")]
    ELSE [rec EXCEPT !.pc = "done", !.ops = Append(@, "settings.get")]

MessageResumeLogAlways(rec, ok, failed) ==
    CASE rec.pc = "await_ban" -> SendLog(rec, failed)
      [] rec.pc = "await_restrict" ->
            IF ok THEN [rec EXCEPT !.pc = "await_notice", !.acts = Append(@, "mute_notice")]
            ELSE [rec EXCEPT !.pc = "done"]
      [] rec.pc = "await_notice" ->
            IF ok THEN SendLog(rec, failed) ELSE [rec EXCEPT !.pc = "raised"]
      [] rec.pc = "await_reply" ->
            IF ok THEN SendLog(rec, failed) ELSE [rec EXCEPT !.pc = "raised"]
      [] rec.pc = "await_log" -> [rec EXCEPT !.pc = "done"]
      [] OTHER -> rec

\* check_messages after the platform call it awaited came back (ok) or raised
\* TelegramError (~ok)
MessageResume(rec, ok, failed) ==
    CASE rec.pc = "await_ban" ->
            IF ok THEN SendLog(rec, failed) ELSE [rec EXCEPT !.pc = "done"]
      [] rec.pc = "await_restrict" ->
            IF ok THEN [rec EXCEPT !.pc = "await_notice", !.acts = Append(@, "mute_notice")]
            ELSE [rec EXCEPT !.pc = "done"]
      [] rec.pc = "await_notice" ->
            IF ok THEN SendLog(rec, failed) ELSE [rec EXCEPT !.pc = "raised"]
      [] rec.pc = "await_reply" ->
            IF ok THEN SendLog(rec, failed) ELSE [rec EXCEPT !.pc = "raised"]
      [] rec.pc = "await_log" -> [rec EXCEPT !.pc = "done"]
      [] OTHER -> rec

Texts == {<<"A", "b">>, <<"B">>}
Names == {"n1"}
NoFaults == {{}}     \* the sets of store reads and writes that fail: none does

\* the model takes up another update
Accepts == Len(upd) < MaxUpdates

CheckMessages(c, u, bot, svc, name, text, failed) ==
    /\ \E order \in Orders(DOMAIN FiltersMapOf(c, GetGroupSettings(c, failed), failed)) :
          LET r == MessageRun(c, u, bot, svc, name, text, order, failed)
          IN  /\ users' = r.users
              /\ events' = r.events
              /\ upd' = Append(upd, r.rec)
    /\ UNCHANGED <<now, admins, groups, calls>>

\* the handler record when the call it awaits ends: with TelegramError (~ok)
\* or without
Returned(rec, ok) ==
    IF ok THEN rec ELSE [rec EXCEPT !.errs = @ \cup {rec.acts[Len(rec.acts)]}]

Resume(i, ok, failed) ==
    /\ upd[i].kind = "message"
    /\ upd[i].pc \notin {"done", "raised"}
    /\ upd' = [upd EXCEPT ![i] = MessageResume(Returned(upd[i], ok), ok, failed)]
    /\ UNCHANGED <<now, events, admins, groups, users, calls>>

TickSteps == {5, 10}

Tick(d) ==
    /\ now + d <= MaxTime
    /\ now' = now + d
    /\ UNCHANGED <<events, admins, groups, users, upd, calls>>

----------------------------------------------------------------------------
(* Service messages: a join (new_chat_members) and a leave                 *)
(* (left_chat_member).                                                     *)

RECURSIVE DropBots(_)
\* the members from the first one that is no bot on
DropBots(members) ==
    IF members = <<>> THEN <<>>
    ELSE IF Head(members) THEN DropBots(Tail(members))
    ELSE members

\* the loop of welcome_new_members at its next member
GreetNext(rec) ==
    LET rest == DropBots(rec.todo)
    IN  IF rest = <<>> THEN [rec EXCEPT !.pc = "done", !.todo = <<>>]
        ELSE [rec EXCEPT !.pc = "await_welcome", !.acts = Append(@, "welcome"),
                         !.todo = Tail(rest)]

ToggleOffByDefault(settings, key) == settings[key] # "true"

\* not settings.get(key, True): the toggle is off only when it is stored so
ToggleOff(settings, key) == settings[key] = "false"

\* settings.get(key) or DEFAULT_WELCOME / DEFAULT_GOODBYE
TemplateOf(settings, key) ==
    IF settings[key] = "" THEN "DEFAULT" ELSE settings[key]

\* welcome_new_members from its start to its first await (or its return)
WelcomeRun(c, u, members, failed) ==
    LET base == [NewUpdate("join", c, u, <<>>) EXCEPT
                    !.svc = "join", !.failed = failed, !.members = members,
                    !.todo = members]
        settings == GetGroupSettings(c, failed)
        read == [base EXCEPT !.ops = <<"settings.get">>]
    IN  IF ToggleOff(settings, "welcome_on") THEN read
        ELSE GreetNext([read EXCEPT !.reply = TemplateOf(settings, "welcome_text")])

\* member_left from its start to its first await (or its return)
MemberLeftRun(c, u, members, failed) ==
    LET base == [NewUpdate("leave", c, u, <<>>) EXCEPT
                    !.svc = "leave", !.failed = failed, !.members = members]
        settings == GetGroupSettings(c, failed)
        read == [base EXCEPT !.ops = <<"settings.get">>]
    IN  IF members = <<>> THEN base
        ELSE IF ToggleOff(settings, "goodbye_on") THEN read
        ELSE IF Head(members) THEN read
        ELSE [read EXCEPT !.pc = "await_goodbye", !.acts = <<"goodbye">>,
                          !.reply = TemplateOf(settings, "goodbye_text")]

\* a service handler after the call it awaited came back (ok) or raised (~ok)
ServiceResume(rec, ok, failed) ==
    CASE rec.pc \in {"await_welcome", "await_goodbye"} ->
            IF ~ok THEN [rec EXCEPT !.pc = "raised"]
            ELSE IF SendLog(rec, failed).pc = "await_log" THEN SendLog(rec, failed)
            ELSE IF rec.kind = "join" THEN GreetNext(rec)
            ELSE [rec EXCEPT !.pc = "done"]
      [] rec.pc = "await_log" ->
            IF rec.kind = "join" THEN GreetNext(rec) ELSE [rec EXCEPT !.pc = "done"]
      [] OTHER -> rec

WelcomeNewMembers(c, u, members, failed) ==
    /\ upd' = Append(upd, WelcomeRun(c, u, members, failed))
    /\ UNCHANGED <<now, events, admins, groups, users, calls>>

MemberLeft(c, u, members, failed) ==
    /\ upd' = Append(upd, MemberLeftRun(c, u, members, failed))
    /\ UNCHANGED <<now, events, admins, groups, users, calls>>

ServiceStep(i, ok, failed) ==
    /\ upd[i].kind \in {"join", "leave"}
    /\ upd[i].pc \notin {"done", "raised"}
    /\ upd' = [upd EXCEPT ![i] = ServiceResume(Returned(upd[i], ok), ok, failed)]
    /\ UNCHANGED <<now, events, admins, groups, users, calls>>

HandlerOfAll(svc) == "check_messages"

\* _register_handlers, lines 145-151: the first handler whose filter the
\* message passes is the one that runs
HandlerOf(svc) ==
    CASE svc = "join" -> "welcome_new_members"
      [] svc = "leave" -> "member_left"
      [] OTHER -> "check_messages"

\* a message, as the application hands it to its handler; members are those
\* of a join or the one of a leave, name and text those of a plain message
Dispatch(c, u, bot, svc, members, name, text, failed) ==
    CASE HandlerOf(svc) = "welcome_new_members" -> WelcomeNewMembers(c, u, members, failed)
      [] HandlerOf(svc) = "member_left" -> MemberLeft(c, u, members, failed)
      [] OTHER -> CheckMessages(c, u, bot, svc, name, text, failed)

----------------------------------------------------------------------------
(* Commands.  A command's arguments: s the joined text of context.args,    *)
(* trig and reply the two parts of /addfilter, v a number argument as      *)
(* typed (Absent: no argument, StrVal: not a number), target the sender of *)
(* the message replied to (0: the command replies to nothing).  The user 0 *)
(* stands for an update without effective_user.                            *)

ConfigCommands ==
    {"setwelcome", "setgoodbye", "welcome", "goodbye", "setflood", "addfilter",
     "delfilter", "setlog", "unsetlog"}
ModerationCommands == {"ban", "unban", "kick", "mute", "unmute", "promote", "demote"}
AllCommands == ConfigCommands \cup ModerationCommands

\* _is_admin: a read of admins/{user}; False when it fails
IsAdminFailOpen(u, failed) == "admins" \in failed \/ u \in admins

\* _is_admin: a read of admins/{user}; False when it fails
IsAdmin(u, failed) == "admins" \notin failed /\ u \in admins

\* _parse_toggle
ParseToggle(s) ==
    IF s \in {"on", "true", "yes", "1"} THEN "true"
    ELSE IF s \in {"off", "false", "no", "0"} THEN "false"
    ELSE "none"

FilterKeyRaw(trig) == trig

\* add_filter, delete_filter: context.args[0].strip().lower()
FilterKey(trig) == Lower(trig)

ValidArgsAny(cmd, arg) == TRUE

\* the argument checks a config command makes before it touches the store
ValidArgs(cmd, arg) ==
    CASE cmd \in {"setwelcome", "setgoodbye"} -> arg.s # ""
      [] cmd \in {"welcome", "goodbye"} -> ParseToggle(arg.s) # "none"
      [] cmd = "setflood" -> arg.v.k = "int" /\ arg.v.v > 0
      [] cmd = "addfilter" -> FilterKey(arg.trig) # <<>> /\ arg.reply # ""
      [] cmd = "delfilter" -> arg.trig # <<>>
      [] cmd = "setlog" -> arg.v.k = "int"
      [] OTHER -> TRUE

\* dict with one key set, and with one key removed
SetFilter(fmap, tr, reply) ==
    [k \in (DOMAIN fmap) \cup {tr} |-> IF k = tr THEN reply ELSE fmap[k]]

RemoveFilterAll(fmap, tr) == NoFilters

RemoveFilter(fmap, tr) == [k \in (DOMAIN fmap) \ {tr} |-> fmap[k]]

\* the store write of a config command: _update_group, _set_filter,
\* _remove_filter or _delete_group_value
ConfigWrite(cmd, g, arg) ==
    CASE cmd = "setwelcome" -> [g EXCEPT !.welcome_text = arg.s]
      [] cmd = "setgoodbye" -> [g EXCEPT !.goodbye_text = arg.s]
      [] cmd = "welcome" -> [g EXCEPT !.welcome_on = ParseToggle(arg.s)]
      [] cmd = "goodbye" -> [g EXCEPT !.goodbye_on = ParseToggle(arg.s)]
      [] cmd = "setflood" -> [g EXCEPT !.flood_limit = arg.v]
      [] cmd = "addfilter" -> [g EXCEPT !.filters = SetFilter(@, FilterKey(arg.trig), arg.reply)]
      [] cmd = "delfilter" -> [g EXCEPT !.filters = RemoveFilter(@, FilterKey(arg.trig))]
      [] cmd = "setlog" -> [g EXCEPT !.log_channel = arg.v]
      [] cmd = "unsetlog" -> [g EXCEPT !.log_channel = Absent]
      [] OTHER -> g

SetBanStateToggle(g, target, state, failed) ==
    IF "write" \in failed THEN g
    ELSE IF state \/ target \notin g.blacklist THEN [g EXCEPT !.blacklist = @ \cup {target}]
    ELSE [g EXCEPT !.blacklist = @ \ {target}]

\* _set_ban_state: the write is skipped when it fails
SetBanState(g, target, state, failed) ==
    IF "write" \in failed THEN g
    ELSE IF state THEN [g EXCEPT !.blacklist = @ \cup {target}]
    ELSE [g EXCEPT !.blacklist = @ \ {target}]

\* the first platform call of a moderation command
ModerationCall(cmd) ==
    CASE cmd \in {"ban", "kick"} -> "ban_member"
      [] cmd = "unban" -> "unban_member"
      [] cmd \in {"mute", "unmute"} -> "restrict_member"
      [] OTHER -> "promote_member"

EnsureAdminOpen(u, failed) == TRUE

\* _ensure_admin: whether the command may go on
EnsureAdmin(u, failed) == IsAdmin(u, failed)

\* a command handler from its start to its first await
CommandRun(cmd, c, u, arg, failed) ==
    LET base == [NewUpdate(cmd, c, u, arg.trig) EXCEPT
                    !.target = arg.target, !.reply = arg.reply, !.failed = failed,
                    !.arg = arg]
        gated == [base EXCEPT !.ops = <<"admins.get">>]
        final(a) == [gated EXCEPT !.pc = "await_final", !.acts = <<a>>]
        read == IF cmd = "delfilter" THEN <<"admins.get", "filters.get">>
                ELSE <<"admins.get">>
        g == groups[c]
    IN
    IF u = 0
    THEN [groups |-> groups, rec |-> base]
    ELSE IF ~EnsureAdmin(u, failed)
    THEN [groups |-> groups, rec |-> final("denial")]
    ELSE IF cmd \in ConfigCommands
    THEN IF ~ValidArgs(cmd, arg)
         THEN [groups |-> groups, rec |-> final("usage")]
         ELSE IF cmd = "delfilter" /\ FilterKey(arg.trig) \notin DOMAIN GetFilters(c, failed)
         THEN [groups |-> groups, rec |-> [final("not_found") EXCEPT !.ops = read]]
         ELSE IF "write" \in failed
         THEN [groups |-> groups,
               rec |-> [final("reply_fail") EXCEPT !.ops = Append(read, "group.write")]]
         ELSE [groups |-> [groups EXCEPT ![c] = ConfigWrite(cmd, g, arg)],
               rec |-> [gated EXCEPT !.pc = "await_ok", !.acts = <<"reply_ok">>,
                                     !.ops = Append(read, "group.write")]]
    ELSE IF arg.target = 0 \/ arg.target = u
    THEN [groups |-> groups, rec |-> final("usage")]
    ELSE [groups |-> IF cmd \in {"ban", "unban"}
                     THEN [groups EXCEPT ![c] = SetBanState(g, arg.target, cmd = "ban", failed)]
                     ELSE groups,
          rec |-> [gated EXCEPT !.pc = "await_call", !.acts = <<ModerationCall(cmd)>>,
                                !.ops = IF cmd \in {"ban", "unban"}
                                        THEN <<"admins.get", "blacklist.write">>
                                        ELSE <<"admins.get">>]]

\* a command handler after the call it awaited came back (ok) or raised (~ok)
CommandResume(rec, ok, failed) ==
    CASE rec.pc = "await_final" ->
            [rec EXCEPT !.pc = IF ok THEN "done" ELSE "raised"]
      [] rec.pc = "await_call" ->
            IF ~ok THEN [rec EXCEPT !.pc = "await_final", !.acts = Append(@, "reply_fail")]
            ELSE IF rec.kind = "kick"
            THEN [rec EXCEPT !.pc = "await_call2", !.acts = Append(@, "unban_member")]
            ELSE [rec EXCEPT !.pc = "await_ok", !.acts = Append(@, "reply_ok")]
      [] rec.pc = "await_call2" ->
            IF ~ok THEN [rec EXCEPT !.pc = "await_final", !.acts = Append(@, "reply_fail")]
            ELSE [rec EXCEPT !.pc = "await_ok", !.acts = Append(@, "reply_ok")]
      [] rec.pc = "await_ok" ->
            IF ok THEN SendLog(rec, failed) ELSE [rec EXCEPT !.pc = "raised"]
      [] rec.pc = "await_log" -> [rec EXCEPT !.pc = "done"]
      [] OTHER -> rec

Command(cmd, c, u, arg, failed) ==
    /\ LET r == CommandRun(cmd, c, u, arg, failed)
       IN  /\ groups' = r.groups
           /\ upd' = Append(upd, r.rec)
    /\ UNCHANGED <<now, events, admins, users, calls>>

CommandStepRollback(i, ok, failed) ==
    /\ upd[i].kind \in AllCommands
    /\ upd[i].pc \notin {"done", "raised"}
    /\ upd' = [upd EXCEPT ![i] = CommandResume(Returned(upd[i], ok), ok, failed)]
    /\ groups' = IF ~ok /\ upd[i].kind = "ban" /\ upd[i].pc = "await_call"
                 THEN [groups EXCEPT ![upd[i].chat].blacklist = @ \ {upd[i].target}]
                 ELSE groups
    /\ UNCHANGED <<now, events, admins, users, calls>>

\* a command handler after the platform call it awaited came back or raised
CommandStep(i, ok, failed) ==
    /\ upd[i].kind \in AllCommands
    /\ upd[i].pc \notin {"done", "raised"}
    /\ upd' = [upd EXCEPT ![i] = CommandResume(Returned(upd[i], ok), ok, failed)]
    /\ UNCHANGED <<now, events, admins, groups, users, calls>>

----------------------------------------------------------------------------
(* Spec: the bot handling messages and commands of one chat concurrently.  *)

InitFilters == [tr \in {<<"a">>} |-> "r1"]

InitGroups ==
    {[c \in Chats |-> [EmptyGroup EXCEPT !.flood_limit = IntVal(1), !.filters = InitFilters]]}

Init ==
    /\ now = 0
    /\ events = [k \in {} |-> <<>>]
    /\ admins = {1}
    /\ groups \in InitGroups
    /\ users = [u \in Users |-> <<>>]
    /\ upd = <<>>
    /\ calls = <<>>

SpecChats == {1}
SpecCommands == {"ban", "unban"}
SpecCallers == {1}
SpecArgs == {[NoArg EXCEPT !.target = 2]}
Outcomes == {TRUE}    \* how a platform call may end: no TelegramError

Next ==
    \/ \E d \in TickSteps : Tick(d)
    \/ \E c \in SpecChats, u \in Users, text \in Texts, name \in Names, failed \in NoFaults :
          Accepts /\ CheckMessages(c, u, FALSE, "none", name, text, failed)
    \/ \E i \in DOMAIN upd, ok \in Outcomes, failed \in NoFaults : Resume(i, ok, failed)
    \/ \E cmd \in SpecCommands, c \in SpecChats, u \in SpecCallers, arg \in SpecArgs,
          failed \in NoFaults : Accepts /\ Command(cmd, c, u, arg, failed)
    \/ \E i \in DOMAIN upd, ok \in Outcomes, failed \in NoFaults : CommandStep(i, ok, failed)

Spec == Init /\ [][Next]_vars

----------------------------------------------------------------------------
(* SpecFlood: the FloodTracker alone, called for any key at any time.      *)
(* calls is the log of the calls made: the key, the time and the count     *)
(* returned.                                                               *)

FloodTickSteps == {4, 10}
FloodKeys == {<<1, 1>>, <<1, 2>>, <<2, 1>>}

InitFlood ==
    /\ now = 0
    /\ events = [k \in {} |-> <<>>]
    /\ admins = {1}
    /\ groups = [c \in Chats |-> EmptyGroup]
    /\ users = [u \in Users |-> <<>>]
    /\ upd = <<>>
    /\ calls = <<>>

CallIncrement(key) ==
    /\ Len(calls) < MaxCalls
    /\ LET r == Increment(events, key, now)
       IN  /\ events' = r.events
           /\ calls' = Append(calls, [key |-> key, t |-> now, count |-> r.count])
    /\ UNCHANGED <<now, admins, groups, users, upd>>

NextFlood ==
    \/ \E d \in FloodTickSteps : Tick(d)
    \/ \E key \in FloodKeys : CallIncrement(key)

SpecFlood == InitFlood /\ [][NextFlood]_vars

----------------------------------------------------------------------------
(* SpecFilter: messages of one sender against a filter table of several    *)
(* triggers; the flood limit is the default, which these runs do not reach. *)

FilterTables ==
    {[tr \in {<<"a">>, <<"a", "b">>} |-> IF tr = <<"a">> THEN "r1" ELSE "r2"],
     [tr \in {<<"b">>, <<"a", "b">>, <<"b", "a">>} |->
         IF tr = <<"b">> THEN "r1" ELSE IF tr = <<"a", "b">> THEN "r2" ELSE "r3"]}

FilterTexts == {<<>>, <<"A">>, <<"A", "b">>, <<"B", "A", "b">>}

InitFilter ==
    /\ now = 0
    /\ events = [k \in {} |-> <<>>]
    /\ admins = {1}
    /\ \E fmap \in FilterTables :
          groups = [c \in Chats |-> [EmptyGroup EXCEPT !.filters = fmap]]
    /\ users = [u \in Users |-> <<>>]
    /\ upd = <<>>
    /\ calls = <<>>

NextFilter ==
    \/ \E text \in FilterTexts, failed \in NoFaults :
          Accepts /\ CheckMessages(1, 2, FALSE, "none", "n1", text, failed)
    \/ \E i \in DOMAIN upd, ok \in Outcomes, failed \in NoFaults : Resume(i, ok, failed)

SpecFilter == InitFilter /\ [][NextFilter]_vars

----------------------------------------------------------------------------
(* SpecCmd: the commands, run by an admin and by a user who is none.       *)

MaxCmds == 2         \* commands handled in one run of SpecCmd

\* well-formed arguments for cmd sent by u
GoodArg(cmd, u) ==
    CASE cmd \in {"setwelcome", "setgoodbye"} -> [NoArg EXCEPT !.s = "hello"]
      [] cmd \in {"welcome", "goodbye"} -> [NoArg EXCEPT !.s = "off"]
      [] cmd = "setflood" -> [NoArg EXCEPT !.v = IntVal(2)]
      [] cmd = "addfilter" -> [NoArg EXCEPT !.trig = <<"B">>, !.reply = "r2"]
      [] cmd = "delfilter" -> [NoArg EXCEPT !.trig = <<"A">>]
      [] cmd = "setlog" -> [NoArg EXCEPT !.v = IntVal(7)]
      [] cmd = "unsetlog" -> NoArg
      [] OTHER -> [NoArg EXCEPT !.target = IF u = 1 THEN 2 ELSE 1]

InitCmd ==
    /\ now = 0
    /\ events = [k \in {} |-> <<>>]
    /\ admins = {1}
    /\ groups \in InitGroups
    /\ users = [u \in Users |-> <<>>]
    /\ upd = <<>>
    /\ calls = <<>>

NextCmd ==
    \/ \E cmd \in AllCommands, u \in Users, failed \in NoFaults :
          Len(upd) < MaxCmds /\ Command(cmd, 1, u, GoodArg(cmd, u), failed)
    \/ \E i \in DOMAIN upd, ok \in Outcomes, failed \in NoFaults : CommandStep(i, ok, failed)

SpecCmd == InitCmd /\ [][NextCmd]_vars

----------------------------------------------------------------------------
(* SpecFault: messages of a blacklisted sender (1) and of another (2) in a *)
(* chat with a log channel, where every platform call may raise            *)
(* TelegramError.                                                          *)

AnyOutcome == BOOLEAN
FaultTexts == {<<"A">>}

InitFault ==
    /\ now = 0
    /\ events = [k \in {} |-> <<>>]
    /\ admins = {1}
    /\ groups = [c \in Chats |->
                   [EmptyGroup EXCEPT !.flood_limit = IntVal(1), !.filters = InitFilters,
                                      !.blacklist = {1}, !.log_channel = IntVal(7)]]
    /\ users = [u \in Users |-> <<>>]
    /\ upd = <<>>
    /\ calls = <<>>

NextFault ==
    \/ \E u \in Users, text \in FaultTexts, failed \in NoFaults :
          Accepts /\ CheckMessages(1, u, FALSE, "none", "n1", text, failed)
    \/ \E i \in DOMAIN upd, ok \in AnyOutcome, failed \in NoFaults : Resume(i, ok, failed)

SpecFault == InitFault /\ [][NextFault]_vars

----------------------------------------------------------------------------
(* SpecLimit: messages of one sender, all within one window, in a chat     *)
(* whose stored flood_limit is any kind of value; an admin may set it with *)
(* /setflood.                                                              *)

MaxLimitMsgs == 6    \* updates handled in one run of SpecLimit

LimitValues == {Absent, StrVal, IntVal(-1), IntVal(0), IntVal(1), IntVal(2)}
SetFloodArgs == {[NoArg EXCEPT !.v = v] : v \in {StrVal, IntVal(0), IntVal(2)}}

Commands == {i \in DOMAIN upd : upd[i].kind \in AllCommands}

InitLimit ==
    /\ now = 0
    /\ events = [k \in {} |-> <<>>]
    /\ admins = {1}
    /\ \E v \in LimitValues :
          groups = [c \in Chats |-> [EmptyGroup EXCEPT !.flood_limit = v]]
    /\ users = [u \in Users |-> <<>>]
    /\ upd = <<>>
    /\ calls = <<>>

NextLimit ==
    \/ \E failed \in NoFaults :
          /\ Len(upd) < MaxLimitMsgs
          /\ CheckMessages(1, 2, FALSE, "none", "n1", <<"B">>, failed)
    \/ \E i \in DOMAIN upd, ok \in Outcomes, failed \in NoFaults : Resume(i, ok, failed)
    \/ \E arg \in SetFloodArgs, failed \in NoFaults :
          /\ Len(upd) < MaxLimitMsgs
          /\ Cardinality(Commands) < MaxCmds
          /\ Command("setflood", 1, 1, arg, failed)
    \/ \E i \in DOMAIN upd, ok \in Outcomes, failed \in NoFaults : CommandStep(i, ok, failed)

SpecLimit == InitLimit /\ [][NextLimit]_vars

----------------------------------------------------------------------------
(* SpecDegrade: plain messages (of a bot, 1, and of a user, 2), joins and  *)
(* leaves                                                                  *)
(* in a chat whose welcome and goodbye are stored as on or off, where the  *)
(* store reads of a handler may fail.                                      *)

ReadFaults == {{}, {"settings"}, {"settings", "filters"}, {"history"}}
SettingsFaults == {{}, {"settings"}}
MemberLists == {<<FALSE>>, <<TRUE>>, <<TRUE, FALSE>>}
Toggles == {"none", "false"}
BotUsers == {1}      \* the senders that are bots

MaxEvents == 2       \* updates handled in one run of SpecDegrade

InitDegrade ==
    /\ now = 0
    /\ events = [k \in {} |-> <<>>]
    /\ admins = {1}
    /\ \E on \in Toggles :
          groups = [c \in Chats |->
                      [EmptyGroup EXCEPT !.flood_limit = IntVal(1), !.filters = InitFilters,
                                         !.log_channel = IntVal(7),
                                         !.welcome_on = on, !.welcome_text = "hi",
                                         !.goodbye_on = on, !.goodbye_text = "bye"]]
    /\ users = [u \in Users |-> <<>>]
    /\ upd = <<>>
    /\ calls = <<>>

NextDegrade ==
    \/ \E u \in Users, failed \in ReadFaults :
          /\ Len(upd) < MaxEvents
          /\ Dispatch(1, u, u \in BotUsers, "none", <<>>, "n1", <<"A">>, failed)
    \/ \E svc \in {"join", "leave"}, members \in MemberLists, failed \in SettingsFaults :
          Len(upd) < MaxEvents /\ Dispatch(1, 2, FALSE, svc, members, "n1", <<>>, failed)
    \/ \E i \in DOMAIN upd, ok \in Outcomes, failed \in SettingsFaults : Resume(i, ok, failed)
    \/ \E i \in DOMAIN upd, ok \in Outcomes, failed \in SettingsFaults :
          ServiceStep(i, ok, failed)

SpecDegrade == InitDegrade /\ [][NextDegrade]_vars

----------------------------------------------------------------------------
(* SpecHistory: messages of two users under changing names, in a chat      *)
(* without filters and with the default flood limit.                       *)

MaxNames == 4        \* messages handled in one run of SpecHistory
HistoryNames == {"n1", "n2"}

NextHistory ==
    \E u \in Users, name \in HistoryNames, failed \in NoFaults :
        /\ Len(upd) < MaxNames
        /\ CheckMessages(1, u, FALSE, "none", name, <<"B">>, failed)

SpecHistory == InitFlood /\ [][NextHistory]_vars

----------------------------------------------------------------------------
(* SpecFilterCmd: an admin adding and removing filters.                    *)

MaxFilterCmds == 3   \* commands handled in one run of SpecFilterCmd

AddFilterArgs ==
    {[NoArg EXCEPT !.trig = tr, !.reply = rp] :
        tr \in {<<>>, <<"A">>, <<"B">>}, rp \in {"", "r2"}}
DelFilterArgs == {[NoArg EXCEPT !.trig = tr] : tr \in {<<>>, <<"A">>, <<"B">>}}

NextFilterCmd ==
    \/ \E arg \in AddFilterArgs, failed \in NoFaults :
          Len(upd) < MaxFilterCmds /\ Command("addfilter", 1, 1, arg, failed)
    \/ \E arg \in DelFilterArgs, failed \in NoFaults :
          Len(upd) < MaxFilterCmds /\ Command("delfilter", 1, 1, arg, failed)
    \/ \E i \in DOMAIN upd, ok \in Outcomes, failed \in NoFaults : CommandStep(i, ok, failed)

SpecFilterCmd == InitCmd /\ [][NextFilterCmd]_vars

----------------------------------------------------------------------------
(* SpecBadArgs: commands of an admin with well-formed and with malformed   *)
(* arguments.                                                              *)

BadArgCommands ==
    {"welcome", "setflood", "addfilter", "setlog", "ban"}

\* arguments the handler of cmd turns down
BadArgs(cmd) ==
    CASE cmd = "welcome" -> {[NoArg EXCEPT !.s = "maybe"]}
      [] cmd = "setflood" ->
            {[NoArg EXCEPT !.v = v] : v \in {Absent, StrVal, IntVal(0)}}
      [] cmd = "addfilter" ->
            {[NoArg EXCEPT !.trig = <<"B">>], [NoArg EXCEPT !.reply = "r2"]}
      [] cmd = "setlog" -> {NoArg, [NoArg EXCEPT !.v = StrVal]}
      [] OTHER -> {NoArg}

\* the admin 1 with a working and with a failing admins read, the non-admin 2
BadArgCallers == {<<1, {}>>, <<1, {"admins"}>>, <<2, {}>>}

NextBadArgs ==
    \/ \E cmd \in BadArgCommands, who \in BadArgCallers :
          \E arg \in BadArgs(cmd) \cup {GoodArg(cmd, who[1])} :
             Len(upd) < MaxCmds /\ Command(cmd, 1, who[1], arg, who[2])
    \/ \E i \in DOMAIN upd, ok \in Outcomes, failed \in NoFaults : CommandStep(i, ok, failed)

SpecBadArgs == InitCmd /\ [][NextBadArgs]_vars

----------------------------------------------------------------------------
(* SpecSlow: store calls that take time. The handlers are coroutines of    *)
(* one event loop (concurrent_updates makes a task of each update); the    *)
(* store calls (reference.get, push, set, update, delete) are plain        *)
(* synchronous calls inside them, so the thread of the loop stays in the   *)
(* call until it returns. A platform call is awaited and gives the loop    *)
(* back.                                                                   *)

LoopYields == TRUE

\* the thread of the event loop is not inside a store call
LoopFree == \A k \in DOMAIN upd : upd[k].pc # "in_store"

\* an update arrives and the task of its handler is created
Arrive(c, u, name, text) ==
    /\ upd' = Append(upd, [NewUpdate("message", c, u, text) EXCEPT
                              !.pc = "queued", !.name = name])
    /\ UNCHANGED <<now, events, admins, groups, users, calls>>

\* _append_name_history, lines 305-308: the push that follows the read of
\* history, unless its last entry is the formatted name
PushUnlessLast(history, u, name, failed) ==
    IF history # <<>> /\ history[Len(history)] = name THEN users
    ELSE IF "push" \in failed THEN users
    ELSE [users EXCEPT ![u] = Append(@, name)]

\* the loop runs the task: check_messages enters its store calls, the first
\* of them the read of the name history
EnterStore(i) ==
    /\ LoopFree
    /\ upd[i].pc = "queued"
    /\ upd' = [upd EXCEPT ![i].pc = "in_store",
                          ![i].seen = GetNameHistory(upd[i].user, {})]
    /\ UNCHANGED <<now, events, admins, groups, users, calls>>

\* the store calls return: check_messages goes on to its first await
StoreReturns(i) ==
    /\ upd[i].pc = "in_store"
    /\ \E order \in Orders(DOMAIN FiltersMapOf(upd[i].chat,
                                  GetGroupSettings(upd[i].chat, {}), {})) :
          LET r == MessageRun(upd[i].chat, upd[i].user, FALSE, "none", upd[i].name,
                              upd[i].text, order, {})
          IN  /\ users' = PushUnlessLast(upd[i].seen, upd[i].user, upd[i].name, {})
              /\ events' = r.events
              /\ upd' = [upd EXCEPT ![i] = [r.rec EXCEPT !.seen = upd[i].seen]]
    /\ UNCHANGED <<now, admins, groups, calls>>

\* the platform call a handler awaits is over and the loop resumes the task
LoopResume(i, ok) ==
    /\ LoopFree
    /\ upd[i].pc \notin {"queued", "in_store"}
    /\ Resume(i, ok, {})

NextSlow ==
    \/ \E d \in TickSteps : Tick(d)
    \/ \E u \in Users, text \in FaultTexts : Accepts /\ Arrive(1, u, "n1", text)
    \/ \E i \in DOMAIN upd : EnterStore(i)
    \/ \E i \in DOMAIN upd : StoreReturns(i)
    \/ \E i \in DOMAIN upd, ok \in Outcomes : LoopResume(i, ok)

SpecSlow == Init /\ [][NextSlow]_vars

----------------------------------------------------------------------------
(* SpecRace: messages of the same users under either of two formatted      *)
(* names, dispatched concurrently; the store calls take time as in         *)
(* SpecSlow.                                                               *)

NextRace ==
    \/ \E u \in Users, name \in HistoryNames, text \in FaultTexts :
          Accepts /\ Arrive(1, u, name, text)
    \/ \E i \in DOMAIN upd : EnterStore(i)
    \/ \E i \in DOMAIN upd : StoreReturns(i)
    \/ \E i \in DOMAIN upd, ok \in Outcomes : LoopResume(i, ok)

SpecRace == Init /\ [][NextRace]_vars

----------------------------------------------------------------------------
(* SpecFailOpen: messages of a blacklisted sender (1) and of another (2),  *)
(* where the read of the blacklist entry may raise.                        *)

BlacklistFaults == {{}, {"blacklist"}}

NextFailOpen ==
    \/ \E u \in Users, text \in FaultTexts, failed \in BlacklistFaults :
          Accepts /\ CheckMessages(1, u, FALSE, "none", "n1", text, failed)
    \/ \E i \in DOMAIN upd, ok \in Outcomes, failed \in NoFaults : Resume(i, ok, failed)

SpecFailOpen == InitFault /\ [][NextFailOpen]_vars

----------------------------------------------------------------------------
(* SpecGate: every gated command sent by the admin 1, whose admins entry   *)
(* is read or fails to be read, and by an update without a user (0).       *)

GateCallers == {<<1, {}>>, <<1, {"admins"}>>, <<0, {}>>}

NextGate ==
    \/ \E cmd \in AllCommands, who \in GateCallers :
          Len(upd) < MaxCmds /\ Command(cmd, 1, who[1], GoodArg(cmd, 1), who[2])
    \/ \E i \in DOMAIN upd, ok \in Outcomes, failed \in NoFaults : CommandStep(i, ok, failed)

SpecGate == InitCmd /\ [][NextGate]_vars

----------------------------------------------------------------------------
(* SpecBan: the admin 1 bans and unbans user 2, who sends messages; the    *)
(* platform calls may raise TelegramError and the blacklist write may      *)
(* fail.                                                                   *)

WriteFaults == {{}, {"write"}}

NextBan ==
    \/ \E cmd \in SpecCommands, arg \in SpecArgs, failed \in WriteFaults :
          Accepts /\ Command(cmd, 1, 1, arg, failed)
    \/ \E i \in DOMAIN upd, ok \in AnyOutcome, failed \in NoFaults : CommandStep(i, ok, failed)
    \/ \E text \in FaultTexts, failed \in NoFaults :
          Accepts /\ CheckMessages(1, 2, FALSE, "none", "n1", text, failed)
    \/ \E i \in DOMAIN upd, ok \in AnyOutcome, failed \in NoFaults : Resume(i, ok, failed)

SpecBan == Init /\ [][NextBan]_vars

----------------------------------------------------------------------------
(* What the claims speak of *)

Msgs == {i \in DOMAIN upd : upd[i].kind = "message" /\ ~upd[i].bot /\ upd[i].svc = "none"}

\* the messages FloodTracker.increment was called for
Counted == {i \in Msgs : upd[i].count # -1}

SameKey(i, j) == upd[i].chat = upd[j].chat /\ upd[i].user = upd[j].user

Acts(i) == Range(upd[i].acts)

Muted(i) == "restrict_member" \in Acts(i)

\* the text holds a trigger of the chat's filter table
HoldsTrigger(i) ==
    \E tr \in DOMAIN groups[upd[i].chat].filters : IsSubstring(Lower(tr), Lower(upd[i].text))

\* the earlier counted messages of the same (chat, user)
Prior(i) == {j \in Counted : j < i /\ SameKey(i, j)}

\* the step takes up a new update: upd' holds it last
TakesUp == Len(upd') = Len(upd) + 1

----------------------------------------------------------------------------
(* C1: a message of a blacklisted sender produces the ban call (and its    *)
(* audit log) and nothing else: FloodTracker.events is unchanged by it, no *)
(* count is taken and no filter reply is sent, whatever its text.          *)
C1_BannedOnlyBan ==
    [][ /\ \A i \in DOMAIN upd' :
              (upd'[i].kind = "message" /\ ~upd'[i].bot /\ upd'[i].svc = "none"
                  /\ upd'[i].banned) =>
                 /\ upd'[i].acts \in {<<"ban_member">>, <<"ban_member", "log">>}
                 /\ upd'[i].count = -1
                 /\ upd'[i].reply = ""
        /\ (TakesUp /\ upd'[Len(upd')].kind = "message" /\ ~upd'[Len(upd')].bot
               /\ upd'[Len(upd')].svc = "none" /\ upd'[Len(upd')].banned) =>
              events' = events
      ]_vars

C1_Witness ==
    \E i \in Msgs :
        /\ upd[i].banned /\ HoldsTrigger(i) /\ upd[i].pc = "done"
        /\ upd[i].acts = <<"ban_member">>
        /\ <<upd[i].chat, upd[i].user>> \in DOMAIN events

----------------------------------------------------------------------------
(* C2: with the stored flood_limit L >= 1, a message whose earlier         *)
(* messages of the same (chat, user) all lie less than 10 s before it gets *)
(* the count 1 + their number; it is muted when that count is L + 1 and    *)
(* not muted when it is at most L.                                         *)
C2_CountsThenMute ==
    \A i \in Counted :
        LET L == groups[upd[i].chat].flood_limit
        IN  (/\ L.k = "int" /\ L.v >= 1
             /\ \A j \in Prior(i) : upd[i].t - upd[j].t < FLOOD_WINDOW_SECONDS) =>
               /\ upd[i].count = Cardinality(Prior(i)) + 1
               /\ upd[i].limit = L.v
               /\ upd[i].count <= L.v => ~Muted(i)
               /\ upd[i].count = L.v + 1 => upd[i].acts[1] = "restrict_member"

C2_Witness ==
    \E i, j \in Counted :
        /\ j < i /\ SameKey(i, j) /\ upd[j].t < upd[i].t
        /\ upd[j].count = 1 /\ ~Muted(j)
        /\ upd[i].count = groups[upd[i].chat].flood_limit.v + 1
        /\ Muted(i)

----------------------------------------------------------------------------
(* C3: once the handler of a message over the limit is through, the window *)
(* of its (chat, user) is empty, and the next message of that key gets the *)
(* count 1 and is not muted.                                               *)
C3_WindowResetAfterMute ==
    \A i \in Counted :
        (upd[i].count > upd[i].limit /\ upd[i].pc = "done") =>
            LET later == {j \in Counted : j > i /\ SameKey(i, j)}
                next == CHOOSE j \in later : \A k \in later : j <= k
            IN  IF later = {}
                THEN QueueOf(events, <<upd[i].chat, upd[i].user>>) = <<>>
                ELSE upd[next].count = 1 /\ ~Muted(next)

----------------------------------------------------------------------------
(* C4: a gated command sent by a user who is no admin answers with the     *)
(* denial and nothing else: the step that takes it up leaves the store as  *)
(* it was, and its handler never makes a moderation call.                  *)
C4_NonAdminNoEffect ==
    [][ /\ \A i \in DOMAIN upd' :
              (upd'[i].kind \in AllCommands /\ upd'[i].user \notin admins) =>
                 upd'[i].acts = <<"denial">>
        /\ (TakesUp /\ upd'[Len(upd')].kind \in AllCommands
               /\ upd'[Len(upd')].user \notin admins) =>
              store' = store
      ]_vars

C4_Witness ==
    \E i \in DOMAIN upd :
        /\ upd[i].kind = "addfilter" /\ upd[i].user \notin admins
        /\ upd[i].acts = <<"denial">> /\ upd[i].pc = "done"
        /\ groups[upd[i].chat].filters = InitFilters
        /\ groups[upd[i].chat].blacklist # {}

----------------------------------------------------------------------------
(* C5: the ban check reads the store for every message: a message takes    *)
(* the ban branch exactly when the store then holds a blacklist entry for  *)
(* its (chat, user), whatever was found for that key before.               *)
C5_BanReadEveryMessage ==
    [][ (TakesUp /\ upd'[Len(upd')].kind = "message" /\ ~upd'[Len(upd')].bot
            /\ upd'[Len(upd')].svc = "none") =>
           LET new == upd'[Len(upd')]
           IN  (new.user \in groups[new.chat].blacklist)
                   <=> (new.pc = "await_ban" /\ new.acts = <<"ban_member">>)
      ]_vars

C5_Witness ==
    \E i, j \in Msgs :
        /\ i < j /\ SameKey(i, j)
        /\ ~upd[i].banned /\ upd[i].count >= 1
        /\ upd[j].banned /\ upd[j].acts = <<"ban_member">>

----------------------------------------------------------------------------
(* C6: the stages of a message are entered in the order name history, ban  *)
(* check, flood, filter; a message that is not banned is counted before    *)
(* any filter is looked at, and a message over the limit ends at the flood *)
(* stage, without a filter reply.                                          *)
PipelineOrder == <<"history", "ban_check", "flood", "filter">>

IsPrefix(s, t) == Len(s) <= Len(t) /\ SubSeq(t, 1, Len(s)) = s

C6_BanFloodFilterOrder ==
    \A i \in Msgs :
        /\ IsPrefix(upd[i].steps, PipelineOrder)
        /\ "ban_check" \in Range(upd[i].steps)
        /\ ("flood" \in Range(upd[i].steps)) <=> (upd[i].count # -1)
        /\ ~upd[i].banned => upd[i].count >= 1
        /\ upd[i].count > upd[i].limit =>
              /\ "filter" \notin Range(upd[i].steps)
              /\ upd[i].reply = ""
              /\ upd[i].acts[1] = "restrict_member"
              /\ "filter_reply" \notin Acts(i)
        /\ "filter_reply" \in Acts(i) =>
              upd[i].count \in 1..upd[i].limit

C6_Witness ==
    \E i \in Counted :
        /\ upd[i].count > upd[i].limit /\ HoldsTrigger(i)
        /\ upd[i].pc = "done" /\ upd[i].reply = ""
        /\ \E j \in Prior(i) : upd[j].reply # ""

----------------------------------------------------------------------------
(* C7 as claimed: the count returned is the number of calls on the key     *)
(* with a timestamp t, now - 10 <= t <= now (an entry exactly 10 s old is  *)
(* kept).                                                                  *)
CallsFrom(i, lo) ==
    {j \in 1..i : calls[j].key = calls[i].key /\ lo <= calls[j].t}

CallsAfter(i, lo) ==
    {j \in 1..i : calls[j].key = calls[i].key /\ lo < calls[j].t}

C7_KeepsEntryTenSecondsOld ==
    \A i \in DOMAIN calls :
        calls[i].count = Cardinality(CallsFrom(i, calls[i].t - FLOOD_WINDOW_SECONDS))

(* C7 as amended: the entries evicted are those with a timestamp           *)
(* <= now - 10 (an entry exactly 10 s old is evicted): the count returned  *)
(* is the number of calls on the key with now - 10 < t <= now, and the     *)
(* key's deque holds that many timestamps, oldest first, ending with now.  *)
LastCall(key) ==
    CHOOSE i \in DOMAIN calls :
        calls[i].key = key /\ \A j \in DOMAIN calls : calls[j].key = key => j <= i

C7_EvictsEntryTenSecondsOld ==
    /\ \A i \in DOMAIN calls :
          calls[i].count = Cardinality(CallsAfter(i, calls[i].t - FLOOD_WINDOW_SECONDS))
    /\ \A key \in Keys :
          IF \E i \in DOMAIN calls : calls[i].key = key
          THEN LET q == QueueOf(events, key)
                   last == calls[LastCall(key)]
               IN  /\ Len(q) = last.count
                   /\ q[Len(q)] = last.t
                   /\ \A n \in 1..Len(q) : q[n] > last.t - FLOOD_WINDOW_SECONDS
                   /\ \A n \in 1..(Len(q) - 1) : q[n] <= q[n + 1]
          ELSE key \notin DOMAIN events

C7_Witness ==
    \E i, j \in DOMAIN calls :
        /\ i < j /\ calls[i].key = calls[j].key
        /\ calls[j].t - calls[i].t = FLOOD_WINDOW_SECONDS
        /\ calls[i].count = 1 /\ calls[j].count = 1
        /\ events[calls[j].key] = <<calls[j].t>>

----------------------------------------------------------------------------
(* C8: the increments of one (chat, user) lose no update: when the counted *)
(* messages of a key all lie within one window, their counts are exactly   *)
(* 1..n and the key's deque holds n entries, however their handlers        *)
(* interleave.                                                             *)
C8_NoLostIncrement ==
    \A key \in Keys :
        LET M == {i \in Counted : <<upd[i].chat, upd[i].user>> = key}
        IN  (M # {} /\ \A i, j \in M : upd[i].t - upd[j].t < FLOOD_WINDOW_SECONDS) =>
               /\ {upd[i].count : i \in M} = 1..Cardinality(M)
               /\ Len(QueueOf(events, key)) = Cardinality(M)

C8_Witness ==
    \E i, j \in Counted :
        /\ i < j /\ SameKey(i, j)
        /\ upd[i].pc = "await_reply" /\ upd[j].pc = "await_restrict"
        /\ upd[i].count = 1 /\ upd[j].count = 2

----------------------------------------------------------------------------
(* C9: a call of increment on one key leaves every other key's deque as    *)
(* it was, and adds or removes no other key.                               *)
C9_OtherKeysUnchanged ==
    [][ Len(calls') = Len(calls) + 1 =>
           \A key \in Keys \ {calls'[Len(calls')].key} :
               /\ (key \in DOMAIN events') <=> (key \in DOMAIN events)
               /\ QueueOf(events', key) = QueueOf(events, key)
      ]_vars

C9_Witness ==
    /\ calls # <<>>
    /\ calls[Len(calls)].key = <<1, 1>>
    /\ calls[Len(calls)].count = 2
    /\ DOMAIN events = FloodKeys
    /\ Len(events[<<1, 2>>]) = 1
    /\ Len(events[<<2, 1>>]) = 1

----------------------------------------------------------------------------
(* C10: the filter reply of a message is that of the first trigger, in     *)
(* sorted order, that its lowercased text holds, and there is none when no *)
(* trigger matches: the order in which the store hands out the entries     *)
(* does not show.  (The filter table does not change in SpecFilter.)       *)
C10_FirstMatchInSortedOrder ==
    \A i \in Msgs :
        "filter" \in Range(upd[i].steps) =>
            LET fmap == groups[upd[i].chat].filters
                m == FirstMatch(SortedOrder(DOMAIN fmap), fmap, Lower(upd[i].text))
            IN  /\ upd[i].reply = m.reply
                /\ ("filter_reply" \in Acts(i)) <=> m.hit

----------------------------------------------------------------------------
(* C11: a platform call of check_messages that fails (ban_member,          *)
(* restrict_member, the mute notice, the filter reply, the send to the log *)
(* channel) is caught: no handler of a message ends by raising, no call is *)
(* made twice for one message, and a message that comes after it is        *)
(* handled as usual.                                                       *)
Once(seq) == \A m, n \in DOMAIN seq : seq[m] = seq[n] => m = n

C11_PlatformFailureCaught ==
    \A i \in Msgs :
        /\ upd[i].pc # "raised"
        /\ Once(upd[i].acts)

----------------------------------------------------------------------------
(* C12 as claimed: besides the send to the log channel a message produces  *)
(* at most one platform call; the flood branch and the ban branch make     *)
(* exactly one and send nothing else to the chat.                          *)
Actions(i) == SelectSeq(upd[i].acts, LAMBDA a : a # "log")

----------------------------------------------------------------------------
(* C13: the flood limit a message is compared against is the stored        *)
(* flood_limit when that is an integer >= 1, and 5 when it is absent, no   *)
(* number, or <= 0; it is always >= 1, and the message is muted exactly    *)
(* when its count is greater than it.                                      *)
C13_EffectiveFloodLimit ==
    [][ (TakesUp /\ upd'[Len(upd')].kind = "message" /\ upd'[Len(upd')].count # -1) =>
           LET new == upd'[Len(upd')]
               raw == groups[new.chat].flood_limit
           IN  /\ (raw.k = "int" /\ raw.v >= 1) => new.limit = raw.v
               /\ (raw.k # "int" \/ raw.v <= 0) => new.limit = 5
               /\ new.limit >= 1
               /\ ("restrict_member" \in Range(new.acts)) <=> (new.count > new.limit)
      ]_vars

C13_Witness ==
    \E i \in Counted :
        /\ groups[upd[i].chat].flood_limit.k = "int"
        /\ groups[upd[i].chat].flood_limit.v <= 0
        /\ upd[i].limit = 5 /\ upd[i].count = 6 /\ Muted(i)
        /\ \A j \in Prior(i) : ~Muted(j)

----------------------------------------------------------------------------
(* C14: a handler whose read of the chat's settings fails goes on with the *)
(* defaults: a message is compared against the flood limit 5 and, not over *)
(* it, goes on to the filter stage; a join or leave of a member who is no  *)
(* bot is answered with the default text even when the toggle is stored as *)
(* off; the handler does not raise.                                        *)
C14_DegradesToDefaults ==
    [][ (TakesUp /\ "settings" \in upd'[Len(upd')].failed) =>
           LET new == upd'[Len(upd')]
           IN  /\ new.pc # "raised"
               /\ (new.kind = "message" /\ ~new.bot) =>
                     /\ new.limit = 5
                     /\ new.count <= 5 => new.steps = PipelineOrder
                     /\ ("filters" \notin new.failed /\ new.count <= 5
                            /\ \E tr \in DOMAIN groups[new.chat].filters :
                                  IsSubstring(tr, Lower(new.text))) =>
                            new.acts = <<"filter_reply">>
               /\ (new.kind = "join" /\ DropBots(new.members) # <<>>) =>
                     new.acts = <<"welcome">> /\ new.reply = "DEFAULT"
               /\ (new.kind = "leave" /\ ~Head(new.members)) =>
                     new.acts = <<"goodbye">> /\ new.reply = "DEFAULT"
      ]_vars

C14_Witness ==
    \E i, j \in DOMAIN upd :
        /\ upd[i].kind = "message" /\ "settings" \in upd[i].failed
        /\ groups[upd[i].chat].flood_limit = IntVal(1)
        /\ upd[i].limit = 5 /\ upd[i].reply = "r1" /\ upd[i].pc = "done"
        /\ upd[j].kind = "join" /\ "settings" \in upd[j].failed
        /\ groups[upd[j].chat].welcome_on = "false"
        /\ "welcome" \in Range(upd[j].acts) /\ upd[j].pc = "done"

----------------------------------------------------------------------------
(* C15: a message whose sender is a bot ends check_messages at once: the   *)
(* step that takes it up leaves the name histories and FloodTracker.events *)
(* as they were, and its handler makes no platform call, takes no count    *)
(* and looks at no filter.                                                 *)
C15_BotMessageSilent ==
    [][ /\ \A i \in DOMAIN upd' :
              (upd'[i].kind = "message" /\ upd'[i].bot) =>
                 /\ upd'[i].acts = <<>> /\ upd'[i].pc = "done"
                 /\ upd'[i].steps = <<>> /\ upd'[i].count = -1 /\ upd'[i].reply = ""
        /\ (TakesUp /\ upd'[Len(upd')].bot) =>
              /\ users' = users
              /\ events' = events
      ]_vars

C15_Witness ==
    \E i, j \in DOMAIN upd :
        /\ i < j
        /\ upd[i].kind = "message" /\ ~upd[i].bot /\ upd[i].count = 1
        /\ upd[j].kind = "message" /\ upd[j].bot /\ upd[j].chat = upd[i].chat
        /\ IsSubstring(<<"a">>, Lower(upd[j].text))
        /\ DOMAIN events = {<<upd[i].chat, upd[i].user>>}
        /\ users[upd[j].user] = <<>>

----------------------------------------------------------------------------
(* C16: a join or a leave is handled by welcome_new_members or member_left *)
(* and by nothing else: the step that takes it up leaves                   *)
(* FloodTracker.events as it was, no ban check, count or filter stage is   *)
(* entered for it, and the only calls made for it are the welcome or       *)
(* goodbye and the send to the log channel (no mute, no filter reply).     *)
C16_ServiceEventsBypassPipeline ==
    [][ /\ \A i \in DOMAIN upd' :
              upd'[i].svc # "none" =>
                 /\ upd'[i].kind = upd'[i].svc
                 /\ upd'[i].steps = <<>> /\ upd'[i].count = -1
                 /\ Range(upd'[i].acts) \subseteq
                       (IF upd'[i].svc = "join" THEN {"welcome", "log"} ELSE {"goodbye", "log"})
        /\ (TakesUp /\ upd'[Len(upd')].svc # "none") => events' = events
      ]_vars

C16_Witness ==
    \E i, j \in DOMAIN upd :
        /\ i < j
        /\ upd[i].kind = "message" /\ upd[i].count = 1
        /\ upd[j].svc = "join" /\ upd[j].members = <<TRUE, FALSE>>
        /\ upd[j].acts = <<"welcome", "log">> /\ upd[j].pc = "done"
        /\ events = [k \in {<<upd[i].chat, upd[i].user>>} |-> <<upd[i].t>>]

----------------------------------------------------------------------------
(* C17: the name history of a user is the sequence of the formatted names  *)
(* of their messages with every run of equal adjacent names taken once: a  *)
(* name equal to the last entry is not appended, any other is, also when   *)
(* it stands earlier in the history; no step shortens a history.           *)
RECURSIVE Compress(_)
Compress(seq) ==
    IF Len(seq) <= 1 THEN seq
    ELSE LET init == Compress(SubSeq(seq, 1, Len(seq) - 1))
         IN  IF init[Len(init)] = seq[Len(seq)] THEN init ELSE Append(init, seq[Len(seq)])

\* the formatted names of the messages of u, in the order they were handled
NamesOf(u) ==
    LET mine == SelectSeq(upd, LAMBDA r : r.kind = "message" /\ ~r.bot /\ r.user = u)
    IN  [n \in DOMAIN mine |-> mine[n].name]

C17_AdjacentDedup ==
    [][ \A u \in Users :
           /\ users'[u] = Compress(NamesOf(u)')
           /\ IsPrefix(users[u], users'[u])
      ]_vars

C17_Witness ==
    \E u \in Users :
        /\ NamesOf(u) = <<"n1", "n1", "n2", "n1">>
        /\ users[u] = <<"n1", "n2", "n1">>

----------------------------------------------------------------------------
(* C18: /unban by an admin removes the target's blacklist entry and        *)
(* nothing else; when the target has no entry the store is left as it was  *)
(* and the command goes on to unban_member and its success reply as        *)
(* usual, so a second /unban right after the first changes nothing.        *)
C18_UnbanIdempotent ==
    [][ /\ (TakesUp /\ upd'[Len(upd')].kind = "unban" /\ upd'[Len(upd')].user \in admins) =>
              LET new == upd'[Len(upd')]
                  before == groups[new.chat].blacklist
              IN  /\ new.target # 0
                  /\ groups' = [groups EXCEPT ![new.chat].blacklist = before \ {new.target}]
                  /\ new.target \notin before => store' = store
                  /\ new.acts = <<"unban_member">>
        /\ \A i \in DOMAIN upd' :
              (upd'[i].kind = "unban" /\ upd'[i].user \in admins) =>
                 /\ upd'[i].pc # "raised"
                 /\ IsPrefix(upd'[i].acts, <<"unban_member", "reply_ok", "log">>)
      ]_vars

C18_Witness ==
    \E i \in DOMAIN upd :
        /\ i + 1 \in DOMAIN upd
        /\ upd[i].kind = "unban" /\ upd[i + 1].kind = "unban"
        /\ upd[i].user \in admins /\ upd[i + 1].user \in admins
        /\ upd[i].target = upd[i + 1].target
        /\ upd[i].pc = "done" /\ upd[i + 1].pc = "done"
        /\ upd[i + 1].acts = <<"unban_member", "reply_ok">>
        /\ groups \in InitGroups

----------------------------------------------------------------------------
(* C19: /addfilter by an admin with an empty trigger or an empty reply is  *)
(* rejected and leaves the store as it was; otherwise the reply is stored  *)
(* under the lowercased trigger, in place of what was stored there, and    *)
(* every other entry and setting is left as it was; the filter table never *)
(* holds two triggers that differ only in letter case.                     *)
\* the groups with the filter table of chat c replaced by fmap
WithFilters(c, fmap) == [groups EXCEPT ![c].filters = fmap]

C19_AddFilterLowercasedKey ==
    [][ /\ (TakesUp /\ upd'[Len(upd')].kind = "addfilter" /\ upd'[Len(upd')].user \in admins) =>
              LET new == upd'[Len(upd')]
                  old == groups[new.chat].filters
                  key == [n \in DOMAIN new.text |->
                            IF new.text[n] = "A" THEN "a"
                            ELSE IF new.text[n] = "B" THEN "b" ELSE new.text[n]]
              IN  IF new.text = <<>> \/ new.reply = ""
                  THEN store' = store /\ new.acts = <<"usage">>
                  ELSE /\ groups' = WithFilters(new.chat, groups'[new.chat].filters)
                       /\ DOMAIN groups'[new.chat].filters = DOMAIN old \cup {key}
                       /\ groups'[new.chat].filters[key] = new.reply
                       /\ \A k \in DOMAIN old \ {key} : groups'[new.chat].filters[k] = old[k]
                       /\ new.acts = <<"reply_ok">>
        /\ \A c \in Chats : \A k1, k2 \in DOMAIN groups'[c].filters :
              Lower(k1) = Lower(k2) => k1 = k2
      ]_vars

C19_Witness ==
    /\ groups[1].filters = [tr \in {<<"a">>, <<"b">>} |-> "r2"]
    /\ \E i, j \in DOMAIN upd :
          /\ upd[i].kind = "addfilter" /\ upd[i].text = <<"A">> /\ upd[i].pc = "done"
          /\ upd[i].acts = <<"reply_ok">>
          /\ upd[j].kind = "addfilter" /\ upd[j].reply = "" /\ upd[j].acts = <<"usage">>

----------------------------------------------------------------------------
(* C20: /delfilter by an admin for a trigger the chat's filter table does  *)
(* not hold answers 'not found' and leaves the store as it was; for one it *)
(* holds, exactly that entry is deleted and every other entry and setting  *)
(* is left as it was.                                                      *)
C20_DelFilterExactlyOne ==
    [][ (TakesUp /\ upd'[Len(upd')].kind = "delfilter" /\ upd'[Len(upd')].user \in admins
            /\ upd'[Len(upd')].text # <<>>) =>
           LET new == upd'[Len(upd')]
               old == groups[new.chat].filters
               key == Lower(new.text)
           IN  IF key \notin DOMAIN old
               THEN store' = store /\ new.acts = <<"not_found">>
               ELSE /\ groups' = WithFilters(new.chat, groups'[new.chat].filters)
                    /\ DOMAIN groups'[new.chat].filters = DOMAIN old \ {key}
                    /\ \A k \in DOMAIN old \ {key} : groups'[new.chat].filters[k] = old[k]
                    /\ new.acts = <<"reply_ok">>
      ]_vars

C20_Witness ==
    /\ groups[1].filters = [tr \in {<<"b">>} |-> "r2"]
    /\ \E i, j \in DOMAIN upd :
          /\ i < j
          /\ upd[i].kind = "delfilter" /\ upd[i].text = <<"A">>
          /\ upd[i].acts = <<"reply_ok">> /\ upd[i].pc = "done"
          /\ upd[j].kind = "delfilter" /\ upd[j].text = <<"A">>
          /\ upd[j].acts = <<"not_found">> /\ upd[j].pc = "done"

----------------------------------------------------------------------------
(* C21: a message that comes to the filter stage is answered exactly when  *)
(* some stored trigger, lowercased, is not empty and stands as a run of    *)
(* adjacent characters in the lowercased text (the empty text holds none), *)
(* and the reply is that of such a trigger.                                *)
\* the letter ch without its case
Fold(ch) == IF ch \in {"A", "a"} THEN "a" ELSE IF ch \in {"B", "b"} THEN "b" ELSE ch

\* s stands in t at some offset, letter case aside
Within(s, t) ==
    /\ s # <<>>
    /\ \E off \in 0..Len(t) :
          /\ off + Len(s) <= Len(t)
          /\ \A n \in 1..Len(s) : Fold(t[off + n]) = Fold(s[n])

C21_CaseInsensitiveSubstring ==
    \A i \in Msgs :
        "filter" \in Range(upd[i].steps) =>
            LET fmap == groups[upd[i].chat].filters
                hits == {tr \in DOMAIN fmap : Within(tr, upd[i].text)}
            IN  /\ ("filter_reply" \in Acts(i)) <=> (hits # {})
                /\ hits # {} => upd[i].reply \in {fmap[tr] : tr \in hits}
                /\ hits = {} => upd[i].reply = ""

C21_Witness ==
    \E i, j \in Msgs :
        /\ upd[i].text = <<"B", "A", "b">> /\ <<"a">> \in DOMAIN groups[upd[i].chat].filters
        /\ upd[i].reply \in {"r1", "r2"} /\ upd[i].pc = "done"
        /\ upd[j].text = <<>> /\ "filter" \in Range(upd[j].steps)
        /\ upd[j].acts = <<>>

----------------------------------------------------------------------------
(* C22 as claimed: a command that is turned down for its arguments has     *)
(* made no store read and no store write.                                  *)
\* the arguments of the command are malformed
Malformed(rec) ==
    CASE rec.kind \in {"setwelcome", "setgoodbye"} -> rec.arg.s = ""
      [] rec.kind \in {"welcome", "goodbye"} ->
            rec.arg.s \notin {"on", "true", "yes", "1", "off", "false", "no", "0"}
      [] rec.kind = "setflood" -> rec.arg.v.k # "int" \/ rec.arg.v.v <= 0
      [] rec.kind = "addfilter" -> rec.arg.trig = <<>> \/ rec.arg.reply = ""
      [] rec.kind = "delfilter" -> rec.arg.trig = <<>>
      [] rec.kind = "setlog" -> rec.arg.v.k # "int"
      [] rec.kind \in ModerationCommands -> rec.arg.target \in {0, rec.user}
      [] OTHER -> FALSE

C22_NoStoreAccessOnBadArgs ==
    \A i \in DOMAIN upd :
        (upd[i].kind \in AllCommands /\ Malformed(upd[i])) =>
            upd[i].acts = <<"usage">> /\ upd[i].ops = <<>>

(* C22 as amended: a command with malformed arguments makes one store      *)
(* read, that of admins/{user} by the admin gate, and no other store       *)
(* access: it is answered with the denial when the gate turns the caller   *)
(* down (not an admin, or the read raised) and with a usage or validation  *)
(* message otherwise, and the step that takes it up leaves the store as    *)
(* it was.                                                                 *)
C22_OnlyAdminReadOnBadArgs ==
    [][ /\ \A i \in DOMAIN upd' :
              (upd'[i].kind \in AllCommands /\ Malformed(upd'[i])) =>
                 /\ upd'[i].ops = <<"admins.get">>
                 /\ upd'[i].acts =
                       IF upd'[i].user \in admins /\ "admins" \notin upd'[i].failed
                       THEN <<"usage">> ELSE <<"denial">>
        /\ (TakesUp /\ upd'[Len(upd')].kind \in AllCommands
               /\ Malformed(upd'[Len(upd')])) =>
              store' = store
      ]_vars

C22_Witness ==
    \E i, j \in DOMAIN upd :
        /\ upd[i].kind = "setflood" /\ upd[i].arg.v = IntVal(0)
        /\ upd[i].acts = <<"usage">> /\ upd[i].pc = "done"
        /\ upd[j].kind = "addfilter" /\ upd[j].arg.reply = ""
        /\ upd[j].acts = <<"usage">> /\ upd[j].pc = "done"
        /\ upd[i].ops = <<"admins.get">> /\ upd[j].ops = <<"admins.get">>

----------------------------------------------------------------------------
(* C23: a slow store or platform call delays only the message being        *)
(* processed: while the handler of one message waits on a store call or on *)
(* a platform call, the handler of a message of another (chat, user) key   *)
(* that has something left to do can take its next step.                   *)
\* the handler of update i waits on a store call or on a platform call
Waits(i) == upd[i].pc \in {"in_store", "await_ban", "await_restrict", "await_notice",
                           "await_reply", "await_log"}

\* the handler of update j can take its next step
CanStep(j) == ENABLED (EnterStore(j) \/ StoreReturns(j) \/ LoopResume(j, TRUE))

C23_SlowCallDelaysOnlyItsMessage ==
    \A i, j \in DOMAIN upd :
        (Waits(i) /\ ~SameKey(i, j) /\ upd[j].pc \notin {"done", "raised"}) => CanStep(j)

----------------------------------------------------------------------------
(* C24 as claimed: every message of a blacklisted sender that went through *)
(* the ban step has a remove-member call followed by an audit-log entry to *)
(* the configured log channel, whether the remove-member call succeeded or *)
(* not.                                                                    *)
\* the handled messages that took the ban branch in a chat with a log channel
BanChecked ==
    {i \in Msgs : /\ upd[i].pc \in {"done", "raised"}
                  /\ "ban_member" \in Range(upd[i].acts)
                  /\ groups[upd[i].chat].log_channel.k = "int"}

C24_LogForEveryBanCheck ==
    \A i \in BanChecked : upd[i].acts = <<"ban_member", "log">>

(* C24 as amended: when the sender is blacklisted the ban step makes the   *)
(* remove-member call and stops, with no flood count and no filter reply;  *)
(* the audit-log entry is emitted only when the remove-member call         *)
(* succeeded. When it raised, nothing is sent to the log channel.          *)
C24_LogOnlyAfterSuccessfulBan ==
    \A i \in BanChecked :
        /\ upd[i].pc = "done"
        /\ upd[i].count = -1
        /\ upd[i].steps = <<"history", "ban_check">>
        /\ upd[i].acts = IF "ban_member" \in upd[i].errs
                         THEN <<"ban_member">> ELSE <<"ban_member", "log">>

C24_Witness ==
    \E i, j \in BanChecked :
        /\ upd[i].banned /\ upd[i].errs = {"ban_member"} /\ upd[i].acts = <<"ban_member">>
        /\ upd[j].banned /\ upd[j].errs = {} /\ upd[j].acts = <<"ban_member", "log">>

----------------------------------------------------------------------------
(* C25: window eviction is monotonic. An increment with timestamp t        *)
(* removes from the deque of its key only a prefix of it, every removed    *)
(* entry was inserted at or before t - window, the entry t itself is       *)
(* appended, and the deques of the other keys are untouched; every deque   *)
(* stays sorted oldest-first.                                              *)
Sorted(q) == \A a, b \in 1..Len(q) : a < b => q[a] <= q[b]

\* q is old without its first n entries, followed by t
EvictedPrefix(old, q, n, t) ==
    /\ q = SubSeq(old, n + 1, Len(old)) \o <<t>>
    /\ \A k \in 1..n : old[k] <= t - FLOOD_WINDOW_SECONDS

C25_EvictionMonotonic ==
    [][ Len(calls') = Len(calls) + 1 =>
          LET c == calls'[Len(calls')]
              old == QueueOf(events, c.key)
          IN  /\ c.key \in DOMAIN events'
              /\ \E n \in 0..Len(old) : EvictedPrefix(old, events'[c.key], n, c.t)
              /\ \A k \in DOMAIN events : k # c.key => k \in DOMAIN events' /\ events'[k] = events[k]
              /\ \A k \in DOMAIN events' : Sorted(events'[k])
      ]_vars

\* an increment evicted the oldest entry of a deque and kept a younger one
C25_Witness ==
    \E i, j, k \in DOMAIN calls :
        /\ i < j /\ j < k
        /\ calls[i].key = calls[k].key /\ calls[j].key = calls[k].key
        /\ calls[i].t <= calls[k].t - FLOOD_WINDOW_SECONDS
        /\ calls[j].t > calls[k].t - FLOOD_WINDOW_SECONDS
        /\ calls[k].count = 2
        /\ events[calls[k].key] = <<calls[j].t, calls[k].t>>

(* C26: with the window of 10 s, FloodTracker.increment returns a count of *)
(* at least 1 and the entry just appended is the last of the deque; the    *)
(* branch that pops the key and returns 0 is never taken, so events holds  *)
(* no empty deque and a key, once created, stays.                          *)
C26_CountAtLeastOne ==
    [][ /\ \A i \in DOMAIN calls' :
              calls'[i].count >= 1
        /\ \A k \in DOMAIN events' : events'[k] # <<>>
        /\ DOMAIN events \subseteq DOMAIN events'
        /\ Len(calls') = Len(calls) + 1 =>
              LET c == calls'[Len(calls')]
              IN  /\ c.key \in DOMAIN events'
                  /\ events'[c.key][Len(events'[c.key])] = c.t
                  /\ c.count = Len(events'[c.key])
      ]_vars

\* a key whose older entries were all evicted stays, with the new entry
C26_Witness ==
    \E i, j \in DOMAIN calls :
        /\ i < j /\ calls[i].key = calls[j].key
        /\ calls[j].t - calls[i].t > FLOOD_WINDOW_SECONDS
        /\ \A m \in DOMAIN calls : (i < m /\ m < j) => calls[m].key # calls[i].key
        /\ calls[j].count = 1
        /\ events[calls[j].key] = <<calls[j].t>>
        /\ \E k \in DOMAIN events : k # calls[j].key

----------------------------------------------------------------------------
(* C27: the ban check fails open. When the read of the blacklist entry     *)
(* raises, the message of a sender who is blacklisted is treated as not    *)
(* banned: no remove-member call is made, the flood counter is incremented *)
(* and, below the limit, the filters are evaluated. When the read works,   *)
(* the same sender is removed.                                             *)
C27_BanCheckFailsOpen ==
    \A i \in Msgs :
        upd[i].banned =>
            IF "blacklist" \in upd[i].failed
            THEN /\ "ban_member" \notin Range(upd[i].acts)
                 /\ upd[i].count >= 1
                 /\ SubSeq(upd[i].steps, 1, 3) = <<"history", "ban_check", "flood">>
                 /\ IF ExceedsLimit(upd[i].count, upd[i].limit)
                    THEN upd[i].acts[1] = "restrict_member"
                    ELSE /\ upd[i].steps = <<"history", "ban_check", "flood", "filter">>
                         /\ upd[i].acts[1] = "filter_reply"
            ELSE /\ upd[i].acts[1] = "ban_member"
                 /\ upd[i].count = -1

\* the blacklisted sender was removed for one message and, the read of the
\* blacklist failing, answered by a filter and then muted for two more
C27_Witness ==
    \E i, j, k \in Msgs :
        /\ upd[i].banned /\ upd[j].banned /\ upd[k].banned
        /\ upd[i].failed = {} /\ upd[i].acts[1] = "ban_member"
        /\ upd[j].failed = {"blacklist"} /\ upd[j].count = 1
        /\ upd[j].acts[1] = "filter_reply"
        /\ upd[k].failed = {"blacklist"} /\ upd[k].count = 2
        /\ upd[k].acts[1] = "restrict_member"

----------------------------------------------------------------------------
(* C28: the admin gate fails closed. A gated command whose read of the     *)
(* admins entry raises, or whose update has no user, is turned down even   *)
(* when the caller is a configured admin: the step that takes it up leaves *)
(* the store as it was and the handler makes no platform call but, for a   *)
(* known user, the denial reply.                                           *)
\* the gate cannot establish that the caller of update i is an admin
GateBlind(rec) == rec.kind \in AllCommands /\ ("admins" \in rec.failed \/ rec.user = 0)

C28_AdminGateFailsClosed ==
    [][ /\ \A i \in DOMAIN upd' :
              GateBlind(upd'[i]) =>
                 /\ upd'[i].acts = IF upd'[i].user = 0 THEN <<>> ELSE <<"denial">>
                 /\ \A op \in Range(upd'[i].ops) : op \notin {"group.write", "blacklist.write"}
        /\ (TakesUp /\ GateBlind(upd'[Len(upd')])) => store' = store
      ]_vars

\* the admin's /ban is denied while the admins read fails and, the store
\* untouched, carried out by a later /ban
C28_Witness ==
    \E i, j \in DOMAIN upd :
        /\ i < j
        /\ upd[i].kind = "ban" /\ upd[i].user \in admins /\ upd[i].failed = {"admins"}
        /\ upd[i].acts = <<"denial">> /\ upd[i].pc = "done"
        /\ upd[j].kind = "ban" /\ upd[j].user = upd[i].user /\ upd[j].failed = {}
        /\ upd[j].acts[1] = "ban_member"
        /\ upd[j].target \in groups[1].blacklist

----------------------------------------------------------------------------
(* C29: /ban writes the blacklist entry before it issues the platform ban  *)
(* and never rolls it back. The step that takes up a /ban whose store      *)
(* write works puts the target on the blacklist and only then awaits       *)
(* ban_member; no later step of the command changes the store, whether     *)
(* ban_member raised or not; so after a /ban that reported failure, the    *)
(* next message of the target in that chat, no /unban having come between, *)
(* takes the ban branch.                                                   *)
\* the /ban commands of update list q whose blacklist write worked
BansWritten(q) ==
    {i \in DOMAIN q : q[i].kind = "ban" /\ q[i].acts # <<>>
                        /\ q[i].acts[1] = "ban_member" /\ "write" \notin q[i].failed}

\* update j of q is a /unban of the target of the /ban i
Unbans(q, i, j) ==
    q[j].kind = "unban" /\ q[j].chat = q[i].chat /\ q[j].target = q[i].target

\* update m of q is the first message of the target of the /ban i after it
NextMessageOf(q, i, m) ==
    /\ i < m /\ q[m].kind = "message" /\ q[m].chat = q[i].chat /\ q[m].user = q[i].target
    /\ \A k \in DOMAIN q : (i < k /\ k < m) => q[k].kind # "message"

C29_BanWrittenFirstNeverRolledBack ==
    [][ /\ (TakesUp /\ Len(upd') \in BansWritten(upd')) =>
              LET new == upd'[Len(upd')]
              IN  /\ new.target \in groups'[new.chat].blacklist
                  /\ new.ops = <<"admins.get", "blacklist.write">>
                  /\ new.acts = <<"ban_member">> /\ new.pc = "await_call"
        /\ ~TakesUp => store' = store
        /\ \A i \in BansWritten(upd'), m \in DOMAIN upd' :
              (/\ NextMessageOf(upd', i, m)
               /\ \A k \in DOMAIN upd' : (i < k /\ k < m) => ~Unbans(upd', i, k)) =>
                 /\ upd'[m].banned
                 /\ upd'[m].acts[1] = "ban_member"
                 /\ upd'[m].count = -1
      ]_vars

\* a /ban whose ban_member raised reported the failure, and the next
\* message of its target was met with the ban branch
C29_Witness ==
    \E i \in BansWritten(upd), m \in DOMAIN upd :
        /\ upd[i].acts = <<"ban_member", "reply_fail">> /\ upd[i].pc = "done"
        /\ upd[i].errs = {"ban_member"}
        /\ NextMessageOf(upd, i, m)
        /\ upd[m].t >= upd[i].t
        /\ upd[m].banned /\ upd[m].acts[1] = "ban_member"
        /\ upd[i].target \in groups[upd[i].chat].blacklist

(* C30: whenever /ban answers with its success reply the store holds the   *)
(* blacklist entry of (chat, target), and whenever /unban answers with its *)
(* success reply the entry is absent.                                      *)
\* the handler of update i goes on to send its success reply in this step
RepliesOk(i) ==
    /\ i \in DOMAIN upd /\ upd[i].pc = "await_call"
    /\ upd'[i].pc = "await_ok" /\ upd'[i].acts[Len(upd'[i].acts)] = "reply_ok"

C30_SuccessReplyMatchesStore ==
    [][ \A i \in DOMAIN upd :
           RepliesOk(i) =>
              /\ upd[i].kind = "ban" => upd[i].target \in groups'[upd[i].chat].blacklist
              /\ upd[i].kind = "unban" => upd[i].target \notin groups'[upd[i].chat].blacklist
      ]_vars

----------------------------------------------------------------------------
(* C31: adjacent name-history dedup holds under concurrent handlers. The   *)
(* read of the last history entry and the push that follows it are made    *)
(* with no await between them, so the history the push is decided on is    *)
(* the stored one: a handler appends its formatted name exactly when the   *)
(* stored history does not end with it, the history never holds two equal  *)
(* adjacent entries, and messages of one user that all carry the same name *)
(* leave one entry, however their handlers overlap.                        *)
NoEqualNeighbours(q) == \A n \in 1..(Len(q) - 1) : q[n] # q[n + 1]

\* the messages of u whose handler is past its name-history calls
Pushed(q, u) ==
    {i \in DOMAIN q : q[i].kind = "message" /\ q[i].user = u
                        /\ q[i].pc \notin {"queued", "in_store"}}

C31_DedupUnderConcurrency ==
    [][ /\ \A u \in Users :
              /\ NoEqualNeighbours(users'[u])
              /\ \A n \in HistoryNames :
                    (Pushed(upd', u) # {} /\ \A i \in Pushed(upd', u) : upd'[i].name = n) =>
                       users'[u] = <<n>>
        /\ \A i \in DOMAIN upd :
              (upd[i].pc = "in_store" /\ upd'[i].pc # "in_store") =>
                 /\ upd[i].seen = HistoryToList(users[upd[i].user])
                 /\ users' = [users EXCEPT ![upd[i].user] =
                                 IF @ # <<>> /\ @[Len(@)] = upd[i].name
                                 THEN @ ELSE Append(@, upd[i].name)]
      ]_vars

\* two messages of one user with one name, both handlers in flight at once
\* (each awaits its platform call), have left one history entry
C31_Witness ==
    \E i, j \in DOMAIN upd :
        /\ i < j /\ SameKey(i, j) /\ upd[i].name = upd[j].name
        /\ upd[i].pc \in {"await_reply", "await_restrict"}
        /\ upd[j].pc \in {"await_reply", "await_restrict"}
        /\ upd[i].seen # upd[j].seen
        /\ users[upd[i].user] = <<upd[i].name>>

====
